---- MODULE Spec2Model ----
(***************************************************************************)
(* The command tutor: App (src/unnamed/part_001) driving callGemini         *)
(* (src/services/geminiService.ts) and rendered by InterfaceDisplay         *)
(* (src/unnamed/part_002); and the fixed-question tutor: App (src/App.tsx)  *)
(* driving geminiService.sendMessage (src/unnamed/part_003).                *)
(*                                                                          *)
(* The React state (useState cells and the tutorStateRef ref) is the state  *)
(* of the model.  Every handler is an operator from a session record to the *)
(* session record it leaves behind, so that the same handler text serves    *)
(* the session itself and a second session run beside it (twin).            *)
(*                                                                          *)
(* Encodings.  A null / undefined string is Null; an absent numeric id is   *)
(* NoId; a null PhaseResponse is NullResponse; a null learnerInput is the   *)
(* empty text (callGemini only tests it for truthiness); an absent options  *)
(* array is the empty sequence (InterfaceDisplay renders both alike).       *)
(* Texts are sequences of one-character strings.  The display-only fields   *)
(* of the interface object (title, content, instructions) are not state of  *)
(* the machine and are left out.                                            *)
(***************************************************************************)
EXTENDS Integers, Sequences, FiniteSets, TLC

VARIABLES
    phaseResponse,        \* useState<PhaseResponse | null>
    isLoading,            \* useState<boolean>(true)
    error,                \* useState<string | null>
    learnerCommandInput,  \* useState<string>('')
    tutorStateRef,        \* useRef({question_index, score, currentPhase, ...})
    inflight,             \* the callGemini promises not yet settled
    mounted,              \* whether the mount effect has run
    twin,                 \* a second session, fed the same learner events
    lastEvent,            \* the last learner event delivered to a handler
    tutor,                \* the React state of the fixed-question tutor
    probe                 \* arguments and result of a getProgress evaluation

vars == <<phaseResponse, isLoading, error, learnerCommandInput, tutorStateRef,
          inflight, mounted, twin, lastEvent, tutor, probe>>

---------------------------------------------------------------------------
(* Bounds and constants *)

TOTAL_QUESTIONS == 3

\* The largest question_index / score a generator response carries.
MaxIdx == 4

\* The longest options array a generator response carries.
MaxOptions == 3

Null == "null"
NoId == 0 - 1

Phase == {"intro", "teach", "ask", "evaluate", "report", "completed", "paused"}
InputType == {"none", "multiple_choice"}

---------------------------------------------------------------------------
(* Texts: String.prototype.trim and toLowerCase on sequences of characters *)

UpperCase == <<"A","B","C","D","E","F","G","H","I","J","K","L","M",
               "N","O","P","Q","R","S","T","U","V","W","X","Y","Z">>
LowerCase == <<"a","b","c","d","e","f","g","h","i","j","k","l","m",
               "n","o","p","q","r","s","t","u","v","w","x","y","z">>

ToLowerChar(c) ==
    IF \E i \in 1..Len(UpperCase) : UpperCase[i] = c
    THEN LowerCase[CHOOSE i \in 1..Len(UpperCase) : UpperCase[i] = c]
    ELSE c

toLowerCase(t) == [i \in 1..Len(t) |-> ToLowerChar(t[i])]

IsSpace(c) == c = " "

RECURSIVE TrimStart(_)
TrimStart(t) ==
    IF t # <<>> /\ IsSpace(Head(t)) THEN TrimStart(Tail(t)) ELSE t

RECURSIVE TrimEnd(_)
TrimEnd(t) ==
    IF t # <<>> /\ IsSpace(t[Len(t)]) THEN TrimEnd(SubSeq(t, 1, Len(t) - 1)) ELSE t

trim(t) == TrimEnd(TrimStart(t))

EmptyText == <<>>
ResumeText == <<"r","e","s","u","m","e">>
ContinueText == <<"c","o","n","t","i","n","u","e">>
ExitText == <<"e","x","i","t">>
PauseText == <<"p","a","u","s","e">>
ReviewText == <<"r","e","v","i","e","w">>
ClarifyText == <<"c","l","a","r","i","f","y">>
ReportIssueText == <<"r","e","p","o","r","t","_","i","s","s","u","e">>

---------------------------------------------------------------------------
(* Types (src/unnamed/part_004) *)

Label(id) == <<"A", "B", "C", "D", "E", "F">>[id + 1]

\* An options array of n entries, ids counted from 0 as the prompt asks.
Options(n) == [i \in 1..n |-> [id |-> i - 1, label |-> Label(i - 1)]]

OptionArrays == {Options(0)} \cup {Options(n) : n \in 2..MaxOptions}

Option == {[id |-> i, label |-> Label(i)] : i \in 0..(MaxOptions - 1)}

Interface == [input_type : InputType, options : OptionArrays]

State == [question_index : 0..MaxIdx, score : 0..MaxIdx]

PhaseResponse ==
    [phase : Phase, state : State, interface : Interface,
     correct_answer_id : {NoId} \cup 0..(MaxOptions - 1)]

NullResponse == [phase |-> Null]

---------------------------------------------------------------------------
(* The session: the React state of one App instance *)

Session ==
    [phaseResponse |-> phaseResponse, isLoading |-> isLoading, error |-> error,
     learnerCommandInput |-> learnerCommandInput, tutorStateRef |-> tutorStateRef,
     inflight |-> inflight, mounted |-> mounted]

\* useState / useRef initial values, before the mount effect has run.
InitialSession ==
    [phaseResponse |-> NullResponse, isLoading |-> TRUE, error |-> Null,
     learnerCommandInput |-> EmptyText,
     tutorStateRef |-> [question_index |-> 0, score |-> 0, currentPhase |-> "intro",
                        correctAnswerId |-> NoId, selectedOptionLabel |-> Null],
     inflight |-> <<>>, mounted |-> FALSE]

\* The session state of the spec: phase, question_index and score.
SessionState(s) ==
    <<s.tutorStateRef.currentPhase, s.tutorStateRef.question_index,
      s.tutorStateRef.score>>

Remove(q, i) == SubSeq(q, 1, i - 1) \o SubSeq(q, i + 1, Len(q))

---------------------------------------------------------------------------
(* callGemini and fetchGeminiResponse *)

\* One callGemini invocation: the context it puts in the prompt, and the one
\* generateContent call it makes.
callGemini(currentPhase, currentState, isPreviousAnswerCorrect, label, learnerInput) ==
    [currentPhase |-> currentPhase, currentState |-> currentState,
     isPreviousAnswerCorrect |-> isPreviousAnswerCorrect,
     selectedOptionLabel |-> label,
     learnerInput |-> learnerInput, generateContentCalls |-> 1]

\* The feedback context buildGeminiPrompt puts in the prompt of a call: in
\* phase evaluate "correct" when isPreviousAnswerCorrect is true and
\* "incorrect" when it is false or null, nothing in any other phase.
feedbackContext(call) ==
    IF call.currentPhase = "evaluate"
    THEN (IF call.isPreviousAnswerCorrect = "true" THEN "correct" ELSE "incorrect")
    ELSE "none"

\* fetchGeminiResponse up to its await: the flags are set and the call is made
\* from the ref as the handler left it.
fetchGeminiResponse(s, isPreviousAnswerCorrect, submitLearnerInput) ==
    [s EXCEPT
       !.isLoading = TRUE,
       !.error = Null,
       !.inflight = Append(@, callGemini(s.tutorStateRef.currentPhase,
                              [question_index |-> s.tutorStateRef.question_index,
                               score |-> s.tutorStateRef.score],
                              isPreviousAnswerCorrect,
                              s.tutorStateRef.selectedOptionLabel,
                              submitLearnerInput))]

\* CommitRef without the answer id: the question presented cannot be scored.
CommitRef_AnswerDropped(ref, response) ==
    [ref EXCEPT
       !.currentPhase = response.phase,
       !.question_index = response.state.question_index,
       !.score = response.state.score,
       !.correctAnswerId = NoId,
       !.selectedOptionLabel = Null]

\* The ref after the commit of a response.
CommitRef(ref, response) ==
    [ref EXCEPT
       !.currentPhase = response.phase,
       !.question_index = response.state.question_index,
       !.score = response.state.score,
       !.correctAnswerId = response.correct_answer_id,
       !.selectedOptionLabel = Null]

\* fetchGeminiResponse after its await, the call i having returned response.
Resolve(s, i, response) ==
    [s EXCEPT
       !.tutorStateRef = CommitRef(@, response),
       !.phaseResponse = response,
       !.isLoading = FALSE,
       !.inflight = Remove(@, i)]

ErrorMessage == "Failed to get response from AI tutor. Please try again."

\* fetchGeminiResponse after its await, the call i having thrown (an API error,
\* an empty or an unparseable response).
Reject(s, i) ==
    [s EXCEPT
       !.error = ErrorMessage,
       !.isLoading = FALSE,
       !.inflight = Remove(@, i)]

---------------------------------------------------------------------------
(* The handlers of App *)

\* handleOptionSelect without the advance of question_index.
handleOptionSelect_IndexNotAdvanced(s, selectedOptionId, selectedOptionLabel) ==
    IF s.tutorStateRef.currentPhase # "ask" \/ s.isLoading THEN s
    ELSE
      LET ref == s.tutorStateRef
          isCorrect == ref.correctAnswerId # NoId /\ selectedOptionId = ref.correctAnswerId
          next == [ref EXCEPT
                     !.score = IF isCorrect THEN @ + 1 ELSE @,
                     !.selectedOptionLabel = selectedOptionLabel,
                     !.currentPhase = "evaluate"]
      IN fetchGeminiResponse([s EXCEPT !.tutorStateRef = next],
                             IF isCorrect THEN "true" ELSE "false", EmptyText)

\* handleOptionSelect that adds 2 to the score for a correct option.
handleOptionSelect_TwoPoints(s, selectedOptionId, selectedOptionLabel) ==
    IF s.tutorStateRef.currentPhase # "ask" \/ s.isLoading THEN s
    ELSE
      LET ref == s.tutorStateRef
          isCorrect == ref.correctAnswerId # NoId /\ selectedOptionId = ref.correctAnswerId
          next == [ref EXCEPT
                     !.score = IF isCorrect THEN @ + 2 ELSE @,
                     !.question_index = @ + 1,
                     !.selectedOptionLabel = selectedOptionLabel,
                     !.currentPhase = "evaluate"]
      IN fetchGeminiResponse([s EXCEPT !.tutorStateRef = next],
                             IF isCorrect THEN "true" ELSE "false", EmptyText)

\* handleOptionSelect that never adds to the score.
handleOptionSelect_Unscored(s, selectedOptionId, selectedOptionLabel) ==
    IF s.tutorStateRef.currentPhase # "ask" \/ s.isLoading THEN s
    ELSE
      LET ref == s.tutorStateRef
          isCorrect == ref.correctAnswerId # NoId /\ selectedOptionId = ref.correctAnswerId
          next == [ref EXCEPT
                     !.question_index = @ + 1,
                     !.selectedOptionLabel = selectedOptionLabel,
                     !.currentPhase = "evaluate"]
      IN fetchGeminiResponse([s EXCEPT !.tutorStateRef = next],
                             IF isCorrect THEN "true" ELSE "false", EmptyText)

handleOptionSelect(s, selectedOptionId, selectedOptionLabel) ==
    IF s.tutorStateRef.currentPhase # "ask" \/ s.isLoading THEN s
    ELSE
      LET ref == s.tutorStateRef
          isCorrect == ref.correctAnswerId # NoId /\ selectedOptionId = ref.correctAnswerId
          next == [ref EXCEPT
                     !.score = IF isCorrect THEN @ + 1 ELSE @,
                     !.question_index = @ + 1,
                     !.selectedOptionLabel = selectedOptionLabel,
                     !.currentPhase = "evaluate"]
      IN fetchGeminiResponse([s EXCEPT !.tutorStateRef = next],
                             IF isCorrect THEN "true" ELSE "false", EmptyText)

\* ContinuePhase that goes back to ask after every evaluate.
ContinuePhase_AlwaysAsk(ref) ==
    IF ref.currentPhase = "evaluate" THEN "ask"
    ELSE IF ref.currentPhase = "intro" THEN "teach"
    ELSE IF ref.currentPhase = "teach" THEN "ask"
    ELSE IF ref.currentPhase = "report" THEN "completed"
    ELSE ref.currentPhase

\* ContinuePhase that reports one question early.
ContinuePhase_ReportEarly(ref) ==
    IF ref.currentPhase = "evaluate"
    THEN (IF ref.question_index < TOTAL_QUESTIONS - 1 THEN "ask" ELSE "report")
    ELSE IF ref.currentPhase = "intro" THEN "teach"
    ELSE IF ref.currentPhase = "teach" THEN "ask"
    ELSE IF ref.currentPhase = "report" THEN "completed"
    ELSE ref.currentPhase

\* ContinuePhase that asks one more question after the last evaluate.
ContinuePhase_ReportLate(ref) ==
    IF ref.currentPhase = "evaluate"
    THEN (IF ref.question_index <= TOTAL_QUESTIONS THEN "ask" ELSE "report")
    ELSE IF ref.currentPhase = "intro" THEN "teach"
    ELSE IF ref.currentPhase = "teach" THEN "ask"
    ELSE IF ref.currentPhase = "report" THEN "completed"
    ELSE ref.currentPhase

\* The target phase handleContinue writes into the ref before it fetches.
ContinuePhase(ref) ==
    IF ref.currentPhase = "evaluate"
    THEN (IF ref.question_index < TOTAL_QUESTIONS THEN "ask" ELSE "report")
    ELSE IF ref.currentPhase = "intro" THEN "teach"
    ELSE IF ref.currentPhase = "teach" THEN "ask"
    ELSE IF ref.currentPhase = "report" THEN "completed"
    ELSE ref.currentPhase

\* handleContinue without the paused branch: the normal progression always.
handleContinue_NoResume(s) ==
    IF s.isLoading THEN s
    ELSE fetchGeminiResponse(
           [s EXCEPT !.tutorStateRef.currentPhase = ContinuePhase(s.tutorStateRef)],
           Null, EmptyText)

handleContinue(s) ==
    IF s.isLoading THEN s
    ELSE IF s.tutorStateRef.currentPhase = "paused"
    THEN fetchGeminiResponse(s, Null, ResumeText)
    ELSE fetchGeminiResponse(
           [s EXCEPT !.tutorStateRef.currentPhase = ContinuePhase(s.tutorStateRef)],
           Null, EmptyText)

\* SubmitCommand that leaves the case of the text as typed.
SubmitCommand_CaseKept(text, currentPhase) ==
    LET command == trim(text)
    IN IF command = ContinueText /\ currentPhase = "paused" THEN ResumeText ELSE command

\* The command handleCommandSubmit sends for the text typed.
SubmitCommand(text, currentPhase) ==
    LET command == toLowerCase(trim(text))
    IN IF command = ContinueText /\ currentPhase = "paused" THEN ResumeText ELSE command

\* handleCommandSubmit that sends a blank text too.
handleCommandSubmit_BlankSent(s) ==
    IF s.isLoading THEN s
    ELSE [fetchGeminiResponse(s, Null,
            SubmitCommand(s.learnerCommandInput, s.tutorStateRef.currentPhase))
          EXCEPT !.learnerCommandInput = EmptyText]

\* handleCommandSubmit that applies the normal progression before it sends.
handleCommandSubmit_Advancing(s) ==
    IF s.isLoading \/ trim(s.learnerCommandInput) = EmptyText THEN s
    ELSE [fetchGeminiResponse(
            [s EXCEPT !.tutorStateRef.currentPhase = ContinuePhase(s.tutorStateRef)],
            Null, SubmitCommand(s.learnerCommandInput, s.tutorStateRef.currentPhase))
          EXCEPT !.learnerCommandInput = EmptyText]

handleCommandSubmit(s) ==
    IF s.isLoading \/ trim(s.learnerCommandInput) = EmptyText THEN s
    ELSE [fetchGeminiResponse(s, Null,
            SubmitCommand(s.learnerCommandInput, s.tutorStateRef.currentPhase))
          EXCEPT !.learnerCommandInput = EmptyText]

\* handleExit that applies the normal progression before it sends.
handleExit_Advancing(s) ==
    IF s.isLoading THEN s
    ELSE [fetchGeminiResponse(
            [s EXCEPT !.tutorStateRef.currentPhase = ContinuePhase(s.tutorStateRef)],
            Null, ExitText)
          EXCEPT !.learnerCommandInput = EmptyText]

\* handleExit without its isLoading guard.
handleExit_Unguarded(s) ==
    [fetchGeminiResponse(s, Null, ExitText) EXCEPT !.learnerCommandInput = EmptyText]

handleExit(s) ==
    IF s.isLoading THEN s
    ELSE [fetchGeminiResponse(s, Null, ExitText) EXCEPT !.learnerCommandInput = EmptyText]

\* The mount effect: the first fetch.
MountEffect(s) == [fetchGeminiResponse(s, Null, EmptyText) EXCEPT !.mounted = TRUE]

---------------------------------------------------------------------------
(* The render of App: the props handed to InterfaceDisplay *)

\* DataProp that spreads the answer id of the response into the data prop.
DataProp_WithAnswer(s) ==
    IF s.phaseResponse = NullResponse
    THEN [input_type |-> "none", options |-> Options(0), progress |-> 0]
    ELSE [input_type |-> s.phaseResponse.interface.input_type,
          options |-> s.phaseResponse.interface.options,
          correct_answer_id |-> s.phaseResponse.correct_answer_id]

\* The data prop: the interface object of the response, or the placeholder
\* shown before the first response.
DataProp(s) ==
    IF s.phaseResponse = NullResponse
    THEN [input_type |-> "none", options |-> Options(0), progress |-> 0]
    ELSE s.phaseResponse.interface

Props(s) ==
    [data |-> DataProp(s),
     isLoading |-> s.isLoading,
     error |-> s.error,
     commandText |-> s.learnerCommandInput,
     currentPhase |-> IF s.phaseResponse = NullResponse THEN "intro"
                      ELSE s.phaseResponse.phase,
     wired |-> s.phaseResponse # NullResponse]

\* The callbacks of the props: no-ops until the first response is in.
onOptionSelect(s, optionId, optionLabel) ==
    IF Props(s).wired THEN handleOptionSelect(s, optionId, optionLabel) ELSE s

onContinue(s) == IF Props(s).wired THEN handleContinue(s) ELSE s

onCommandSubmit(s) == IF Props(s).wired THEN handleCommandSubmit(s) ELSE s

onExit(s) == IF Props(s).wired THEN handleExit(s) ELSE s

---------------------------------------------------------------------------
(* InterfaceDisplay: which view is rendered, and which controls it offers *)

View(p) ==
    IF p.error # Null THEN "error"
    ELSE IF p.isLoading THEN "loading"
    ELSE "content"

TryAgainShown(p) == View(p) = "error"

OptionShown(p, o) ==
    /\ View(p) = "content"
    /\ p.data.input_type = "multiple_choice"
    /\ \E i \in 1..Len(p.data.options) : p.data.options[i] = o
    /\ ~p.isLoading

\* ContinueShown that offers Continue in completed too.
ContinueShown_InCompleted(p) ==
    /\ View(p) = "content"
    /\ p.data.input_type = "none"
    /\ ~p.isLoading

ContinueShown(p) ==
    /\ View(p) = "content"
    /\ p.data.input_type = "none"
    /\ p.currentPhase # "completed"
    /\ ~p.isLoading

CommandInputShown(p) ==
    /\ View(p) = "content"
    /\ p.currentPhase # "completed"
    /\ ~p.isLoading

SendCommandEnabled(p) ==
    /\ CommandInputShown(p)
    /\ trim(p.commandText) # EmptyText

ExitShown(p) ==
    /\ View(p) = "content"
    /\ p.currentPhase # "completed"
    /\ ~p.isLoading

---------------------------------------------------------------------------
(* The generator: what a settled callGemini may return for a call *)

\* A response whose state is the state the call sent.
StateEchoResponse(call) ==
    {r \in PhaseResponse : r.state = call.currentState}

\* A response whose phase and state are the phase and state the call sent.
EchoResponse(call) ==
    {r \in StateEchoResponse(call) : r.phase = call.currentPhase}

\* The interface the prompt prescribes for a phase: a question with 3 to 4
\* options and the id of one of them in ask, no input and no answer elsewhere.
PromptShaped(r) ==
    IF r.phase = "ask"
    THEN /\ r.interface.input_type = "multiple_choice"
         /\ Len(r.interface.options) \in 3..4
         /\ \E i \in 1..Len(r.interface.options) :
                r.interface.options[i].id = r.correct_answer_id
    ELSE /\ r.interface.input_type = "none"
         /\ r.interface.options = Options(0)
         /\ r.correct_answer_id = NoId

\* A response that echoes the state sent and is shaped as the prompt asks.
ShapedResponse(call) == {r \in StateEchoResponse(call) : PromptShaped(r)}

\* A response that echoes the phase and state sent and is shaped as the prompt asks.
ShapedEchoResponse(call) == {r \in ShapedResponse(call) : r.phase = call.currentPhase}

\* CommandPhases whose exit rule leaves the phase where it is.
CommandPhases_ExitRemains(call) ==
    LET command == call.learnerInput
        qi == call.currentState.question_index
    IN IF command \in {ReviewText, ClarifyText}
       THEN (IF call.currentPhase = "evaluate" /\ qi < TOTAL_QUESTIONS
             THEN {"ask"} ELSE {call.currentPhase})
       ELSE IF command \in {ReportIssueText, PauseText} THEN {"paused"}
       ELSE IF command = ResumeText /\ call.currentPhase = "paused"
       THEN (IF qi < TOTAL_QUESTIONS THEN {"ask"}
             ELSE IF qi = TOTAL_QUESTIONS THEN {"report", "teach"}
             ELSE {"teach"})
       ELSE {call.currentPhase}

\* CommandPhases whose pause and report_issue rules leave the phase where it is.
CommandPhases_PauseRemains(call) ==
    LET command == call.learnerInput
        qi == call.currentState.question_index
    IN IF command \in {ReviewText, ClarifyText}
       THEN (IF call.currentPhase = "evaluate" /\ qi < TOTAL_QUESTIONS
             THEN {"ask"} ELSE {call.currentPhase})
       ELSE IF command = ResumeText /\ call.currentPhase = "paused"
       THEN (IF qi < TOTAL_QUESTIONS THEN {"ask"}
             ELSE IF qi = TOTAL_QUESTIONS THEN {"report", "teach"}
             ELSE {"teach"})
       ELSE IF command = ExitText THEN {"completed"}
       ELSE {call.currentPhase}

\* CommandPhases whose review and clarify rules start the lesson over.
CommandPhases_ReviewRestarts(call) ==
    LET command == call.learnerInput
        qi == call.currentState.question_index
    IN IF command \in {ReviewText, ClarifyText} THEN {"teach"}
       ELSE IF command \in {ReportIssueText, PauseText} THEN {"paused"}
       ELSE IF command = ResumeText /\ call.currentPhase = "paused"
       THEN (IF qi < TOTAL_QUESTIONS THEN {"ask"}
             ELSE IF qi = TOTAL_QUESTIONS THEN {"report", "teach"}
             ELSE {"teach"})
       ELSE IF command = ExitText THEN {"completed"}
       ELSE {call.currentPhase}

\* The phases the "Specific Command Handling Rules" of the prompt prescribe
\* for a call that carries a command.  The resume rule asks for report when
\* question_index = totalQuestions "and previous phase was 'ask'/'evaluate'",
\* and for teach otherwise; the prompt carries no previous phase (the call is
\* made with currentPhase = paused), so either is an outcome of the rule.
CommandPhases(call) ==
    LET command == call.learnerInput
        qi == call.currentState.question_index
    IN IF command \in {ReviewText, ClarifyText}
       THEN (IF call.currentPhase = "evaluate" /\ qi < TOTAL_QUESTIONS
             THEN {"ask"} ELSE {call.currentPhase})
       ELSE IF command \in {ReportIssueText, PauseText} THEN {"paused"}
       ELSE IF command = ResumeText /\ call.currentPhase = "paused"
       THEN (IF qi < TOTAL_QUESTIONS THEN {"ask"}
             ELSE IF qi = TOTAL_QUESTIONS THEN {"report", "teach"}
             ELSE {"teach"})
       ELSE IF command = ExitText THEN {"completed"}
       ELSE {call.currentPhase}

\* PromptResponse whose responses to a command carry no correct_answer_id.
PromptResponse_CommandDropsAnswer(call) ==
    IF call.learnerInput # EmptyText
    THEN {[r EXCEPT !.correct_answer_id = NoId] :
            r \in {x \in ShapedResponse(call) : x.phase \in CommandPhases(call)}}
    ELSE ShapedEchoResponse(call)

\* A response as the prompt asks for it: with a command, the phase of the
\* command rules; without one, the content of the phase sent.  The state is
\* the state sent ("'state': Must NOT change") and the interface is the one
\* of the phase rules.
PromptResponse(call) ==
    IF call.learnerInput # EmptyText
    THEN {r \in ShapedResponse(call) : r.phase \in CommandPhases(call)}
    ELSE ShapedEchoResponse(call)

---------------------------------------------------------------------------
(* The fixed-question tutor: geminiService.sendMessage (src/unnamed/part_003) *)

TutorPhase == {"intro", "teach", "ask", "evaluate", "report", "completed"}

\* The choices of a question: ids 0 to 3.
Choices == <<0, 1, 2, 3>>

\* QUESTIONS[q + 1] is the question of index q.
QUESTIONS ==
    << [id |-> 0, choices |-> Choices, correctAnswerId |-> 1],
       [id |-> 1, choices |-> Choices, correctAnswerId |-> 2],
       [id |-> 2, choices |-> Choices, correctAnswerId |-> 2],
       [id |-> 3, choices |-> Choices, correctAnswerId |-> 1],
       [id |-> 4, choices |-> Choices, correctAnswerId |-> 2] >>

getProgress(q, phase) ==
    IF phase = "intro" THEN 0
    ELSE IF phase = "teach" THEN 10
    ELSE IF phase = "report" \/ q >= Len(QUESTIONS) THEN 100
    ELSE 10 + (q * 18)

\* The object sendMessage returns from its try block.
TutorResponse(nextPhase, nextQ, nextScore, uiScreen, uiChoices, uiInput) ==
    [phase |-> nextPhase,
     state |-> [q |-> nextQ, score |-> nextScore],
     ui |-> [screen |-> uiScreen, choices |-> uiChoices, input |-> uiInput,
             progress |-> getProgress(nextQ, nextPhase)]]

\* The fallback with the progress bar emptied.
Fallback_ProgressReset(currentPhase, currentQ, currentScore) ==
    [TutorResponse(currentPhase, currentQ, currentScore, "intro", <<>>, "none")
       EXCEPT !.ui.progress = 0]

\* The fallback error state sendMessage returns from its catch block.
Fallback(currentPhase, currentQ, currentScore) ==
    TutorResponse(currentPhase, currentQ, currentScore, "intro", <<>>, "none")

NullTutorResponse == [phase |-> Null]

\* Whether the try block of sendMessage can throw for a call: it awaits
\* generateContent, or reads a field of QUESTIONS[currentQ] past the array.
CanThrow(call) ==
    \/ call.phase \in {"intro", "ask", "report"}
    \/ call.phase = "evaluate" /\ call.q + 1 >= Len(QUESTIONS)

\* sendMessage whose report keeps the q it was given.
sendMessage_ReportKeepsQ(call, generated) ==
    LET currentPhase == call.phase
        currentQ == call.q
        currentScore == call.score
    IN IF currentPhase = "intro"
       THEN (IF generated
             THEN TutorResponse("teach", currentQ, currentScore, "lesson", <<>>, "none")
             ELSE Fallback(currentPhase, currentQ, currentScore))
       ELSE IF currentPhase = "teach"
       THEN TutorResponse("ask", 0, currentScore, "question",
                          QUESTIONS[1].choices, "multiple_choice")
       ELSE IF currentPhase = "ask"
       THEN (IF currentQ \in 0..(Len(QUESTIONS) - 1) /\ generated
             THEN TutorResponse("evaluate", currentQ,
                    IF call.userInput = QUESTIONS[currentQ + 1].correctAnswerId
                    THEN currentScore + 1 ELSE currentScore,
                    "feedback", <<>>, "none")
             ELSE Fallback(currentPhase, currentQ, currentScore))
       ELSE IF currentPhase = "evaluate"
       THEN (IF currentQ + 1 < Len(QUESTIONS)
             THEN TutorResponse("ask", currentQ + 1, currentScore, "question",
                                QUESTIONS[currentQ + 2].choices, "multiple_choice")
             ELSE IF generated
             THEN TutorResponse("report", currentQ, currentScore, "final", <<>>, "none")
             ELSE Fallback(currentPhase, currentQ, currentScore))
       ELSE IF currentPhase = "report"
       THEN (IF generated
             THEN TutorResponse("completed", currentQ, currentScore, "final", <<>>, "none")
             ELSE Fallback(currentPhase, currentQ, currentScore))
       ELSE TutorResponse(currentPhase, currentQ, currentScore, "intro", <<>>, "none")

\* sendMessage for a call; generated tells whether its awaits of
\* generateContent, if it makes any, return.
sendMessage(call, generated) ==
    LET currentPhase == call.phase
        currentQ == call.q
        currentScore == call.score
    IN IF currentPhase = "intro"
       THEN (IF generated
             THEN TutorResponse("teach", currentQ, currentScore, "lesson", <<>>, "none")
             ELSE Fallback(currentPhase, currentQ, currentScore))
       ELSE IF currentPhase = "teach"
       THEN TutorResponse("ask", 0, currentScore, "question",
                          QUESTIONS[1].choices, "multiple_choice")
       ELSE IF currentPhase = "ask"
       THEN (IF currentQ \in 0..(Len(QUESTIONS) - 1) /\ generated
             THEN TutorResponse("evaluate", currentQ,
                    IF call.userInput = QUESTIONS[currentQ + 1].correctAnswerId
                    THEN currentScore + 1 ELSE currentScore,
                    "feedback", <<>>, "none")
             ELSE Fallback(currentPhase, currentQ, currentScore))
       ELSE IF currentPhase = "evaluate"
       THEN (IF currentQ + 1 < Len(QUESTIONS)
             THEN TutorResponse("ask", currentQ + 1, currentScore, "question",
                                QUESTIONS[currentQ + 2].choices, "multiple_choice")
             ELSE IF generated
             THEN TutorResponse("report", currentQ + 1, currentScore, "final", <<>>, "none")
             ELSE Fallback(currentPhase, currentQ, currentScore))
       ELSE IF currentPhase = "report"
       THEN (IF generated
             THEN TutorResponse("completed", currentQ, currentScore, "final", <<>>, "none")
             ELSE Fallback(currentPhase, currentQ, currentScore))
       ELSE TutorResponse(currentPhase, currentQ, currentScore, "intro", <<>>, "none")

---------------------------------------------------------------------------
(* The fixed-question tutor: App (src/App.tsx) *)

INITIAL_TUTOR_STATE == [phase |-> "intro", state |-> [q |-> 0, score |-> 0]]

\* useState / useRef initial values, before the mount effect has run.
InitialTutor ==
    [tutorResponse |-> NullTutorResponse, loading |-> FALSE, error |-> Null,
     selectedChoiceId |-> NoId,
     currentPhaseRef |-> "intro", currentQRef |-> 0, currentScoreRef |-> 0,
     inflight |-> <<>>, mounted |-> FALSE]

\* processTutorTurn up to its await.  An absent userInput is NoId.
processTutorTurn(t, phase, q, score, userInput) ==
    [t EXCEPT
       !.loading = TRUE,
       !.error = Null,
       !.inflight = Append(@, [phase |-> phase, q |-> q, score |-> score,
                               userInput |-> userInput])]

\* processTutorTurn after its await, the call i having returned response.
TutorResolve(t, i, response) ==
    [t EXCEPT
       !.tutorResponse = response,
       !.currentPhaseRef = response.phase,
       !.currentQRef = response.state.q,
       !.currentScoreRef = response.state.score,
       !.selectedChoiceId = NoId,
       !.loading = FALSE,
       !.inflight = Remove(@, i)]

LoadErrorMessage == "Failed to load tutor content. Please try again."
SelectAnswerMessage == "Please select an answer."

\* processTutorTurn after its await, the call i having thrown.
TutorReject(t, i) ==
    [t EXCEPT
       !.error = LoadErrorMessage,
       !.loading = FALSE,
       !.inflight = Remove(@, i)]

\* handleAction whose bound on the next question is one too large.
NextTurn_OnePastLast(currentPhase, currentQ) ==
    IF currentPhase = "intro" THEN [phase |-> "teach", q |-> currentQ]
    ELSE IF currentPhase = "teach" THEN [phase |-> "ask", q |-> 0]
    ELSE IF currentPhase = "ask" THEN [phase |-> "evaluate", q |-> currentQ]
    ELSE IF currentPhase = "evaluate"
    THEN [phase |-> IF currentQ + 1 < 6 THEN "ask" ELSE "report", q |-> currentQ + 1]
    ELSE IF currentPhase = "report" THEN [phase |-> "completed", q |-> currentQ]
    ELSE [phase |-> currentPhase, q |-> currentQ]

\* The phase and q handleAction passes to processTutorTurn.
NextTurn(currentPhase, currentQ) ==
    IF currentPhase = "intro" THEN [phase |-> "teach", q |-> currentQ]
    ELSE IF currentPhase = "teach" THEN [phase |-> "ask", q |-> 0]
    ELSE IF currentPhase = "ask" THEN [phase |-> "evaluate", q |-> currentQ]
    ELSE IF currentPhase = "evaluate"
    THEN [phase |-> IF currentQ + 1 < 5 THEN "ask" ELSE "report", q |-> currentQ + 1]
    ELSE IF currentPhase = "report" THEN [phase |-> "completed", q |-> currentQ]
    ELSE [phase |-> currentPhase, q |-> currentQ]

handleAction(t, actionInput) ==
    IF t.tutorResponse = NullTutorResponse THEN t
    ELSE IF t.currentPhaseRef = "ask" /\ actionInput = NoId
    THEN [t EXCEPT !.error = SelectAnswerMessage]
    ELSE IF t.currentPhaseRef = "completed"
    THEN processTutorTurn(
           [t EXCEPT !.tutorResponse = NullTutorResponse,
                     !.currentPhaseRef = "intro",
                     !.currentQRef = 0,
                     !.currentScoreRef = 0],
           INITIAL_TUTOR_STATE.phase, INITIAL_TUTOR_STATE.state.q,
           INITIAL_TUTOR_STATE.state.score, NoId)
    ELSE LET next == NextTurn(t.currentPhaseRef, t.currentQRef)
         IN processTutorTurn(t, next.phase, next.q, t.currentScoreRef, actionInput)

\* The mount effect: the initial load.
TutorMountEffect(t) ==
    [(IF t.tutorResponse = NullTutorResponse
      THEN processTutorTurn(t, INITIAL_TUTOR_STATE.phase, INITIAL_TUTOR_STATE.state.q,
                            INITIAL_TUTOR_STATE.state.score, NoId)
      ELSE t)
     EXCEPT !.mounted = TRUE]

\* renderContent: which view is rendered, and which controls it offers.
TutorView(t) ==
    IF t.loading THEN "loading"
    ELSE IF t.error # Null THEN "error"
    ELSE IF t.tutorResponse = NullTutorResponse THEN "initializing"
    ELSE "content"

RetryShown(t) == TutorView(t) = "error"

ChoiceShown(t, id) ==
    /\ TutorView(t) = "content"
    /\ t.tutorResponse.ui.input = "multiple_choice"
    /\ Len(t.tutorResponse.ui.choices) > 0
    /\ \E i \in 1..Len(t.tutorResponse.ui.choices) : t.tutorResponse.ui.choices[i] = id
    /\ ~t.loading

\* Start Lesson, Continue to Quiz, Next, and the button labelled Restart
\* Tutorial that is rendered in report: each calls handleAction().
ActionShown(t) ==
    /\ TutorView(t) = "content"
    /\ t.tutorResponse.phase \in {"intro", "teach", "evaluate", "report"}
    /\ ~t.loading

SubmitShown(t) ==
    /\ TutorView(t) = "content"
    /\ t.tutorResponse.phase = "ask"
    /\ ~t.loading
    /\ t.selectedChoiceId # NoId

---------------------------------------------------------------------------
(* Steps of the session *)

Install(s) ==
    /\ phaseResponse' = s.phaseResponse
    /\ isLoading' = s.isLoading
    /\ error' = s.error
    /\ learnerCommandInput' = s.learnerCommandInput
    /\ tutorStateRef' = s.tutorStateRef
    /\ inflight' = s.inflight
    /\ mounted' = s.mounted

\* What a learner may type into the command box.
TypedTexts == { EmptyText, <<" ","P","a","u","s","e">> }

Init ==
    /\ phaseResponse = InitialSession.phaseResponse
    /\ isLoading = InitialSession.isLoading
    /\ error = InitialSession.error
    /\ learnerCommandInput = InitialSession.learnerCommandInput
    /\ tutorStateRef = InitialSession.tutorStateRef
    /\ inflight = InitialSession.inflight
    /\ mounted = InitialSession.mounted
    /\ twin = InitialSession
    /\ lastEvent = "none"
    /\ tutor = InitialTutor
    /\ probe = [q |-> 0, phase |-> "intro", progress |-> getProgress(0, "intro")]

\* useEffect(() => { fetchGeminiResponse() }, []): once, after the first render.
Mount ==
    /\ ~mounted
    /\ Install(MountEffect(Session))
    /\ UNCHANGED <<twin, lastEvent, tutor, probe>>

\* A click on a rendered option button.  question_index is capped at MaxIdx.
ClickOption ==
    \E o \in Option :
        /\ OptionShown(Props(Session), o)
        /\ tutorStateRef.question_index < MaxIdx
        /\ Install(onOptionSelect(Session, o.id, o.label))
        /\ UNCHANGED <<twin, lastEvent, tutor, probe>>

ClickContinue ==
    /\ ContinueShown(Props(Session))
    /\ Install(onContinue(Session))
    /\ UNCHANGED <<twin, lastEvent, tutor, probe>>

\* The Try Again button of the error view is wired to onContinue.
ClickTryAgain ==
    /\ TryAgainShown(Props(Session))
    /\ Install(onContinue(Session))
    /\ UNCHANGED <<twin, lastEvent, tutor, probe>>

TypeCommand ==
    \E t \in TypedTexts :
        /\ CommandInputShown(Props(Session))
        /\ learnerCommandInput' = t
        /\ UNCHANGED <<phaseResponse, isLoading, error, tutorStateRef, inflight,
                       mounted, twin, lastEvent, tutor, probe>>

\* The Send Command button, or Enter in the command box.
ClickSendCommand ==
    /\ SendCommandEnabled(Props(Session))
    /\ Install(onCommandSubmit(Session))
    /\ UNCHANGED <<twin, lastEvent, tutor, probe>>

ClickExit ==
    /\ ExitShown(Props(Session))
    /\ Install(onExit(Session))
    /\ UNCHANGED <<twin, lastEvent, tutor, probe>>

\* A call in flight settles with a response: any phase, interface and answer
\* id, the state sent.
GeneratorResponds ==
    \E i \in 1..Len(inflight) : \E r \in StateEchoResponse(inflight[i]) :
        /\ Install(Resolve(Session, i, r))
        /\ UNCHANGED <<twin, lastEvent, tutor, probe>>

\* A call in flight throws.
GeneratorFails ==
    \E i \in 1..Len(inflight) :
        /\ Install(Reject(Session, i))
        /\ UNCHANGED <<twin, lastEvent, tutor, probe>>

Next ==
    \/ Mount
    \/ ClickOption
    \/ ClickContinue
    \/ ClickTryAgain
    \/ TypeCommand
    \/ ClickSendCommand
    \/ ClickExit
    \/ GeneratorResponds
    \/ GeneratorFails

\* The session with a generator that may return any phase, interface and
\* correct_answer_id, and echoes the state it was sent.
Spec == Init /\ [][Next]_vars

---------------------------------------------------------------------------
(* A command-free session with a generator that echoes phase and state *)

EchoResponds ==
    \E i \in 1..Len(inflight) : \E r \in EchoResponse(inflight[i]) :
        /\ Install(Resolve(Session, i, r))
        /\ UNCHANGED <<twin, lastEvent, tutor, probe>>

NextQuiz ==
    \/ Mount
    \/ ClickOption
    \/ ClickContinue
    \/ ClickTryAgain
    \/ EchoResponds
    \/ GeneratorFails

SpecQuiz == Init /\ [][NextQuiz]_vars

\* The same session when no call fails: every call in flight settles with an
\* echoing response, and the learner presses a control whenever one stays
\* offered.
LearnerActs == ClickOption \/ ClickContinue

NextLesson ==
    \/ Mount
    \/ ClickOption
    \/ ClickContinue
    \/ EchoResponds

SpecLesson ==
    /\ Init
    /\ [][NextLesson]_vars
    /\ WF_vars(Mount)
    /\ WF_vars(LearnerActs)
    /\ WF_vars(EchoResponds)

---------------------------------------------------------------------------
(* Learner events delivered to the handlers whatever view is rendered *)

ShapedResponds ==
    \E i \in 1..Len(inflight) : \E r \in ShapedResponse(inflight[i]) :
        /\ Install(Resolve(Session, i, r))
        /\ UNCHANGED <<twin, lastEvent, tutor, probe>>

ArriveOption ==
    \E o \in Option :
        /\ mounted
        /\ tutorStateRef.question_index < MaxIdx
        /\ Install(onOptionSelect(Session, o.id, o.label))
        /\ lastEvent' = "selectOption"
        /\ UNCHANGED <<twin, tutor, probe>>

ArriveContinue ==
    /\ mounted
    /\ Install(onContinue(Session))
    /\ lastEvent' = "continue"
    /\ UNCHANGED <<twin, tutor, probe>>

ArriveCommandSubmit ==
    /\ mounted
    /\ Install(onCommandSubmit(Session))
    /\ lastEvent' = "command"
    /\ UNCHANGED <<twin, tutor, probe>>

ArriveExit ==
    /\ mounted
    /\ Install(onExit(Session))
    /\ lastEvent' = "exit"
    /\ UNCHANGED <<twin, tutor, probe>>

NextArrive ==
    \/ Mount
    \/ TypeCommand
    \/ ArriveOption
    \/ ArriveContinue
    \/ ArriveCommandSubmit
    \/ ArriveExit
    \/ ShapedResponds
    \/ GeneratorFails

SpecArrive == Init /\ [][NextArrive]_vars

---------------------------------------------------------------------------
(* Two sessions fed the same learner events, whose generator responses      *)
(* differ only in the phase / state echo: the session's generator echoes    *)
(* what it was sent, the twin's echoes anything; the rest of a response is  *)
(* as the prompt asks and is the same for both.  The pair is followed while *)
(* the two sessions agree.                                                  *)

Agree == twin = Session

PairMount ==
    /\ Agree
    /\ ~mounted
    /\ Install(MountEffect(Session))
    /\ twin' = MountEffect(twin)
    /\ UNCHANGED <<lastEvent, tutor, probe>>

PairClickOption ==
    \E o \in Option :
        /\ Agree
        /\ OptionShown(Props(Session), o)
        /\ tutorStateRef.question_index < MaxIdx
        /\ Install(onOptionSelect(Session, o.id, o.label))
        /\ twin' = onOptionSelect(twin, o.id, o.label)
        /\ UNCHANGED <<lastEvent, tutor, probe>>

PairClickContinue ==
    /\ Agree
    /\ ContinueShown(Props(Session))
    /\ Install(onContinue(Session))
    /\ twin' = onContinue(twin)
    /\ UNCHANGED <<lastEvent, tutor, probe>>

PairClickTryAgain ==
    /\ Agree
    /\ TryAgainShown(Props(Session))
    /\ Install(onContinue(Session))
    /\ twin' = onContinue(twin)
    /\ UNCHANGED <<lastEvent, tutor, probe>>

PairResponds ==
    \E i \in 1..Len(inflight) : \E r \in ShapedEchoResponse(inflight[i]) :
      \E echo \in [phase : Phase, state : State] :
        /\ Agree
        /\ Install(Resolve(Session, i, r))
        /\ twin' = Resolve(twin, i, [r EXCEPT !.phase = echo.phase,
                                              !.state = echo.state])
        /\ UNCHANGED <<lastEvent, tutor, probe>>

PairFails ==
    \E i \in 1..Len(inflight) :
        /\ Agree
        /\ Install(Reject(Session, i))
        /\ twin' = Reject(twin, i)
        /\ UNCHANGED <<lastEvent, tutor, probe>>

NextPair ==
    \/ PairMount
    \/ PairClickOption
    \/ PairClickContinue
    \/ PairClickTryAgain
    \/ PairResponds
    \/ PairFails

SpecPair == Init /\ [][NextPair]_vars

---------------------------------------------------------------------------
(* Two sessions fed the same learner events and the same responses, but for *)
(* interface.progress: each response carries a progress the prompt allows   *)
(* for its phase, chosen for the session and for the twin apart.  The other *)
(* specifications leave the progress field out of the interface.            *)

\* The progress values a response may carry where the prompt names none.
ProgressValues == {0, 10, 40, 70, 100}

\* The progress the phase rules of the prompt prescribe: 0 in intro, 10 in
\* teach, 10 + (question_index / totalQuestions) * 90 in ask, 100 in report;
\* the rules of evaluate, paused and completed name none.
PromptProgress(phase, qi) ==
    IF phase = "intro" THEN {0}
    ELSE IF phase = "teach" THEN {10}
    ELSE IF phase = "ask" THEN {10 + ((qi * 90) \div TOTAL_QUESTIONS)}
    ELSE IF phase = "report" THEN {100}
    ELSE ProgressValues

\* The response r with progress p in its interface.
WithProgress(r, p) ==
    [phase |-> r.phase, state |-> r.state,
     interface |-> [input_type |-> r.interface.input_type,
                    options |-> r.interface.options, progress |-> p],
     correct_answer_id |-> r.correct_answer_id]

\* The progress bar of InterfaceDisplay: the progress of the data prop.
ProgressShown(props) == props.data.progress

ShownMount ==
    /\ ~mounted
    /\ Install(MountEffect(Session))
    /\ twin' = MountEffect(twin)
    /\ UNCHANGED <<lastEvent, tutor, probe>>

ShownClickOption ==
    \E o \in Option :
        /\ OptionShown(Props(Session), o)
        /\ tutorStateRef.question_index < MaxIdx
        /\ Install(onOptionSelect(Session, o.id, o.label))
        /\ twin' = onOptionSelect(twin, o.id, o.label)
        /\ UNCHANGED <<lastEvent, tutor, probe>>

ShownClickContinue ==
    /\ ContinueShown(Props(Session))
    /\ Install(onContinue(Session))
    /\ twin' = onContinue(twin)
    /\ UNCHANGED <<lastEvent, tutor, probe>>

ShownResponds ==
    \E i \in 1..Len(inflight) : \E r \in ShapedEchoResponse(inflight[i]) :
      \E p1, p2 \in PromptProgress(r.phase, r.state.question_index) :
        /\ Install(Resolve(Session, i, WithProgress(r, p1)))
        /\ twin' = Resolve(twin, i, WithProgress(r, p2))
        /\ UNCHANGED <<lastEvent, tutor, probe>>

NextShown ==
    \/ ShownMount
    \/ ShownClickOption
    \/ ShownClickContinue
    \/ ShownResponds

SpecShown == Init /\ [][NextShown]_vars

---------------------------------------------------------------------------
(* The session with a generator that does what the prompt asks, the learner *)
(* typing commands, and the last learner event on record                    *)

HelloText == <<"h","e","l","l","o">>

\* What a learner may type into the command box: the six commands of the
\* prompt, "continue", and a text that is no command.
CommandTexts ==
    { <<" ","P","a","u","s","e">>, ReviewText, ClarifyText, ReportIssueText,
      ResumeText, <<"E","x","i","t"," ">>, ContinueText, HelloText }

\* The name of a typed command, as it is after trim and toLowerCase.
CommandName(command) ==
    IF command = ReviewText THEN "review"
    ELSE IF command = ClarifyText THEN "clarify"
    ELSE IF command = ReportIssueText THEN "report_issue"
    ELSE IF command = PauseText THEN "pause"
    ELSE IF command = ResumeText THEN "resume"
    ELSE IF command = ExitText THEN "exit"
    ELSE IF command = ContinueText THEN "continue"
    ELSE "other"

LearnerSelects ==
    \E o \in Option :
        /\ OptionShown(Props(Session), o)
        /\ tutorStateRef.question_index < MaxIdx
        /\ Install(onOptionSelect(Session, o.id, o.label))
        /\ lastEvent' = "clickOption"
        /\ UNCHANGED <<twin, tutor, probe>>

LearnerContinues ==
    /\ ContinueShown(Props(Session))
    /\ Install(onContinue(Session))
    /\ lastEvent' = "clickContinue"
    /\ UNCHANGED <<twin, tutor, probe>>

LearnerRetries ==
    /\ TryAgainShown(Props(Session))
    /\ Install(onContinue(Session))
    /\ lastEvent' = "clickTryAgain"
    /\ UNCHANGED <<twin, tutor, probe>>

LearnerTypes ==
    \E t \in CommandTexts :
        /\ CommandInputShown(Props(Session))
        /\ learnerCommandInput' = t
        /\ UNCHANGED <<phaseResponse, isLoading, error, tutorStateRef, inflight,
                       mounted, twin, lastEvent, tutor, probe>>

LearnerSends ==
    /\ SendCommandEnabled(Props(Session))
    /\ Install(onCommandSubmit(Session))
    /\ lastEvent' = CommandName(toLowerCase(trim(learnerCommandInput)))
    /\ UNCHANGED <<twin, tutor, probe>>

LearnerExits ==
    /\ ExitShown(Props(Session))
    /\ Install(onExit(Session))
    /\ lastEvent' = "clickExit"
    /\ UNCHANGED <<twin, tutor, probe>>

PromptResponds ==
    \E i \in 1..Len(inflight) : \E r \in PromptResponse(inflight[i]) :
        /\ Install(Resolve(Session, i, r))
        /\ UNCHANGED <<twin, lastEvent, tutor, probe>>

NextCommand ==
    \/ Mount
    \/ LearnerSelects
    \/ LearnerContinues
    \/ LearnerRetries
    \/ LearnerTypes
    \/ LearnerSends
    \/ LearnerExits
    \/ PromptResponds
    \/ GeneratorFails

SpecCommand == Init /\ [][NextCommand]_vars

---------------------------------------------------------------------------
(* Steps of the fixed-question tutor *)

\* The variables of the command tutor, which these steps leave alone.
CommandTutor == <<phaseResponse, isLoading, error, learnerCommandInput,
                  tutorStateRef, inflight, mounted, twin>>

TutorMount ==
    /\ ~tutor.mounted
    /\ tutor' = TutorMountEffect(tutor)
    /\ UNCHANGED <<CommandTutor, lastEvent, probe>>

TutorClickChoice ==
    \E id \in 0..3 :
        /\ ChoiceShown(tutor, id)
        /\ tutor' = [tutor EXCEPT !.selectedChoiceId = id]
        /\ lastEvent' = "clickChoice"
        /\ UNCHANGED <<CommandTutor, probe>>

TutorClickAction ==
    /\ ActionShown(tutor)
    /\ tutor' = handleAction(tutor, NoId)
    /\ lastEvent' = "clickAction"
    /\ UNCHANGED <<CommandTutor, probe>>

TutorClickSubmit ==
    /\ SubmitShown(tutor)
    /\ tutor' = handleAction(tutor, tutor.selectedChoiceId)
    /\ lastEvent' = "clickSubmit"
    /\ UNCHANGED <<CommandTutor, probe>>

TutorClickRetry ==
    /\ RetryShown(tutor)
    /\ tutor' = handleAction(tutor, NoId)
    /\ lastEvent' = "clickRetry"
    /\ UNCHANGED <<CommandTutor, probe>>

\* sendMessage returns: from its try block, or the fallback of its catch.
TutorResolves ==
    \E i \in 1..Len(tutor.inflight) : \E generated \in BOOLEAN :
        /\ generated \/ CanThrow(tutor.inflight[i])
        /\ tutor' = TutorResolve(tutor, i, sendMessage(tutor.inflight[i], generated))
        /\ UNCHANGED <<CommandTutor, lastEvent, probe>>

\* sendMessage rejects: its catch block (alert, openSelectKey) throws in turn.
TutorRejects ==
    \E i \in 1..Len(tutor.inflight) :
        /\ CanThrow(tutor.inflight[i])
        /\ tutor' = TutorReject(tutor, i)
        /\ UNCHANGED <<CommandTutor, lastEvent, probe>>

NextTutor ==
    \/ TutorMount
    \/ TutorClickChoice
    \/ TutorClickAction
    \/ TutorClickSubmit
    \/ TutorClickRetry
    \/ TutorResolves
    \/ TutorRejects

SpecTutor == Init /\ [][NextTutor]_vars

\* getProgress applied to any q of 0 .. QUESTIONS.length and any phase.
Progress ==
    \E q \in 0..Len(QUESTIONS) : \E phase \in TutorPhase :
        /\ probe' = [q |-> q, phase |-> phase, progress |-> getProgress(q, phase)]
        /\ UNCHANGED <<CommandTutor, lastEvent, tutor>>

NextProgress ==
    \/ TutorMount
    \/ TutorClickChoice
    \/ TutorClickAction
    \/ TutorClickSubmit
    \/ TutorClickRetry
    \/ TutorResolves
    \/ TutorRejects
    \/ Progress

\* The fixed-question tutor, with getProgress evaluated on the side.
SpecProgress == Init /\ [][NextProgress]_vars

---------------------------------------------------------------------------
(* The classification of a typed command, applied to any text in any phase *)

ToUpperChar(c) ==
    IF \E i \in 1..Len(LowerCase) : LowerCase[i] = c
    THEN UpperCase[CHOOSE i \in 1..Len(LowerCase) : LowerCase[i] = c]
    ELSE c

toUpperCase(t) == [i \in 1..Len(t) |-> ToUpperChar(t[i])]

\* The ways a learner may type a text: as it is, in capitals, with a capital
\* first letter, and with a space before or after.
Typings(t) ==
    {t, toUpperCase(t), <<ToUpperChar(Head(t))>> \o Tail(t), <<" ">> \o t, t \o <<" ">>}

\* The texts typed: the commands, "continue" and a text that is no command.
RawTexts ==
    UNION {Typings(t) : t \in {ReviewText, ClarifyText, ReportIssueText, PauseText,
                               ResumeText, ExitText, ContinueText, HelloText}}

\* What handleCommandSubmit sends for a text typed in a phase, and what it
\* sends when its own output is typed again in that phase.
Classify ==
    \E text \in RawTexts : \E phase \in Phase :
        /\ probe' = [text |-> text, phase |-> phase,
                     command |-> SubmitCommand(text, phase),
                     again |-> SubmitCommand(SubmitCommand(text, phase), phase)]
        /\ UNCHANGED <<CommandTutor, lastEvent, tutor>>

NextClassify ==
    \/ Classify

SpecClassify == Init /\ [][NextClassify]_vars

---------------------------------------------------------------------------
(* sendMessage applied to any phase, q, score and choice *)

\* sendMessage called with any arguments, its generator call failing or not.
Send ==
    \E phase \in TutorPhase : \E q \in 0..(Len(QUESTIONS) - 1) :
      \E score \in 0..q : \E userInput \in {NoId} \cup 0..3 : \E generated \in BOOLEAN :
        LET call == [phase |-> phase, q |-> q, score |-> score, userInput |-> userInput]
        IN /\ generated \/ CanThrow(call)
           /\ probe' = [call |-> call, generated |-> generated,
                        response |-> sendMessage(call, generated)]
           /\ UNCHANGED <<CommandTutor, lastEvent, tutor>>

NextSend ==
    \/ Send

SpecSend == Init /\ [][NextSend]_vars

---------------------------------------------------------------------------
(* Claims *)

\* The phase, question_index and score of the last response committed (the
\* initial ones before the first).
LastCommitted(s) ==
    IF s.phaseResponse = NullResponse THEN SessionState(InitialSession)
    ELSE <<s.phaseResponse.phase, s.phaseResponse.state.question_index,
           s.phaseResponse.state.score>>

\* C1: while a generator call is in flight (it may never complete) and after
\* it has failed, phase, question_index and score are what they were before
\* the learner event that started the turn, that is, those last committed.
C1_FailedTurnLeavesState ==
    (isLoading \/ error # Null) => SessionState(Session) = LastCommitted(Session)

\* C2: Try Again after a failed turn sends the generator the phase,
\* question_index and score of the failed turn: it advances nothing further.
C2_RetryRepeatsFailedTurn ==
    [][(error # Null /\ error' = Null)
         => SessionState(Session)' = SessionState(Session)]_vars

\* C3: two sessions with the same learner events, whose generator responses
\* differ only in the phase / state echo, have the same phase, question_index
\* and score.
C3_EchoIndependence == SessionState(twin) = SessionState(Session)

\* C4: in a command-free session with an echoing generator, question_index
\* never exceeds TOTAL_QUESTIONS and never decreases.
C4_IndexMonotoneBounded ==
    /\ [](tutorStateRef.question_index <= TOTAL_QUESTIONS)
    /\ [][tutorStateRef'.question_index >= tutorStateRef.question_index]_vars

\* C4 witness: the last question answered, index at TOTAL_QUESTIONS, a turn
\* having failed on the way.
C4_Witness ==
    /\ tutorStateRef.question_index = TOTAL_QUESTIONS
    /\ tutorStateRef.currentPhase = "evaluate"
    /\ error # Null

\* C5: with a generator that echoes the state it was sent,
\* 0 <= score <= question_index in every reachable state.
C5_ScoreWithinIndex ==
    /\ 0 <= tutorStateRef.score
    /\ tutorStateRef.score <= tutorStateRef.question_index

\* C5 witness: every question so far answered correctly, after a command turn.
C5_Witness ==
    /\ tutorStateRef.score = 2
    /\ tutorStateRef.question_index = 2
    /\ \E i \in 1..Len(inflight) : inflight[i].learnerInput = PauseText

\* The schema of a response for its phase.
FitsSchema(r) ==
    /\ r.phase = "ask" =>
         /\ Len(r.interface.options) \in 3..4
         /\ \E i \in 1..Len(r.interface.options) :
                r.interface.options[i].id = r.correct_answer_id
    /\ r.phase \in {"teach", "evaluate", "report"} =>
         /\ r.interface.options = <<>>
         /\ r.correct_answer_id = NoId

\* C6: a response committed and shown fits the schema of its phase.
C6_CommittedFitsSchema ==
    phaseResponse # NullResponse => FitsSchema(phaseResponse)

\* C7: an error is surfaced only by a call that has gone to the generator
\* twice (the first output invalid, the one retry failed too).
C7_ErrorOnlyAfterRetry ==
    [][(error = Null /\ error' # Null)
         => \E i \in 1..Len(inflight) : inflight[i].generateContentCalls = 2]_vars

\* C8: at most one generator call is in flight, and while one is, a step that
\* is not its settling (a learner event arriving) starts no call and leaves
\* the session state, the response shown and the flags alone.
C8_OneCallInFlight ==
    /\ [](Len(inflight) <= 1)
    /\ [][(inflight # <<>> /\ Len(inflight') >= Len(inflight))
            => UNCHANGED <<tutorStateRef, inflight, phaseResponse, isLoading, error>>]_vars

\* C8 witness: the handlers are wired, and an exit arrived while the call of
\* a command was in flight.
C8_Witness ==
    /\ phaseResponse # NullResponse
    /\ isLoading
    /\ Len(inflight) = 1
    /\ inflight[1].learnerInput = PauseText
    /\ lastEvent = "exit"

\* C9: the props of InterfaceDisplay carry no correct answer id.
C9_NoAnswerInProps ==
    /\ "correct_answer_id" \notin DOMAIN Props(Session)
    /\ "correct_answer_id" \notin DOMAIN Props(Session).data

\* C9 witness: a question is on screen and its answer id is held for scoring.
C9_Witness ==
    /\ phaseResponse # NullResponse
    /\ View(Props(Session)) = "content"
    /\ Props(Session).currentPhase = "ask"
    /\ tutorStateRef.correctAnswerId # NoId
    /\ \E o \in Option : OptionShown(Props(Session), o)

\* The step in which option o is selected.
SelectStep(o) ==
    /\ tutorStateRef.selectedOptionLabel = Null
    /\ tutorStateRef'.selectedOptionLabel = o.label

\* C10: selecting an option in ask adds 1 to score when its id is the
\* correct_answer_id of the response that presented the question, and
\* leaves score alone otherwise.
C10_SelectScores ==
    [][\A o \in Option :
         SelectStep(o) =>
           /\ tutorStateRef.currentPhase = "ask"
           /\ tutorStateRef'.score =
                tutorStateRef.score
                  + (IF phaseResponse.correct_answer_id = o.id THEN 1 ELSE 0)]_vars

\* C10 witness: the correct option was just selected and the score went up.
C10_Witness ==
    /\ Len(inflight) = 1
    /\ inflight[1].isPreviousAnswerCorrect = "true"
    /\ phaseResponse # NullResponse
    /\ tutorStateRef.score = phaseResponse.state.score + 1

\* The step in which the call in flight returns and its response is committed.
CommitStep ==
    /\ Len(inflight) = 1
    /\ inflight' = <<>>
    /\ error' = Null

\* question_index and score are left as they are.
Frozen ==
    /\ tutorStateRef'.question_index = tutorStateRef.question_index
    /\ tutorStateRef'.score = tutorStateRef.score

\* phase, question_index and score are left as they are.
Untouched == SessionState(Session)' = SessionState(Session)

C13_ResumeOnlyFromPaused ==
    [][lastEvent' = "resume"
         => IF CommitStep /\ tutorStateRef.currentPhase = "paused"
            THEN /\ tutorStateRef'.currentPhase =
                      (IF tutorStateRef.question_index < TOTAL_QUESTIONS
                       THEN "ask" ELSE "report")
                 /\ Frozen
            ELSE Untouched]_vars

C16_CommandSendsSessionAsIs ==
    [][(Len(inflight') = Len(inflight) + 1
          /\ inflight'[Len(inflight')].learnerInput # EmptyText)
         => /\ tutorStateRef' = tutorStateRef
            /\ inflight'[Len(inflight')].currentPhase = tutorStateRef.currentPhase
            /\ inflight'[Len(inflight')].currentState =
                 [question_index |-> tutorStateRef.question_index,
                  score |-> tutorStateRef.score]]_vars

\* C16 witness: Exit was clicked in evaluate with a question remaining, where
\* Continue would have sent ask.
C16_Witness ==
    /\ lastEvent = "clickExit"
    /\ Len(inflight) = 1
    /\ inflight[1].learnerInput = ExitText
    /\ inflight[1].currentPhase = "evaluate"
    /\ tutorStateRef.currentPhase = "evaluate"
    /\ tutorStateRef.question_index = 1

\* C17: a continue event (Continue, or Try Again, which is wired to it) in
\* phase ask starts no generator call.
C17_ContinueInAskStartsNoCall ==
    [][(tutorStateRef.currentPhase = "ask"
          /\ lastEvent' \in {"clickContinue", "clickTryAgain"})
         => Len(inflight') <= Len(inflight)]_vars

C19_RestartOffered ==
    (tutor.currentPhaseRef = "completed" /\ ~tutor.loading)
      => (ActionShown(tutor) \/ SubmitShown(tutor) \/ RetryShown(tutor))

\* n / d rounded to the nearest integer, halves up.
Round(n, d) == (2 * n + d) \div (2 * d)

\* The progress table of the specification, with totalQuestions = 5.
ProgressTable(q, phase) ==
    IF phase = "intro" THEN 0
    ELSE IF phase = "teach" THEN 10
    ELSE IF phase \in {"ask", "evaluate"} THEN 10 + Round(q * 90, 5)
    ELSE 100

\* C20: getProgress(q, phase) is the progress of the table for every phase
\* and every q of 0..5.
C20_ProgressMatchesTable ==
    probe.progress = ProgressTable(probe.q, probe.phase)

\* C21: the progress shown to the learner is a function of the phase and
\* question_index (and TOTAL_QUESTIONS) only: two sessions that show the same
\* phase with the same question_index show the same progress, whatever
\* progress the generator put in its responses.
C21_ProgressFromStateOnly ==
    ( /\ phaseResponse # NullResponse /\ twin.phaseResponse # NullResponse
      /\ ~isLoading /\ ~twin.isLoading
      /\ Props(twin).currentPhase = Props(Session).currentPhase
      /\ twin.tutorStateRef.question_index = tutorStateRef.question_index )
      => ProgressShown(Props(twin)) = ProgressShown(Props(Session))

\* The command vocabulary of the specification.
Vocabulary ==
    {ReviewText, ClarifyText, ReportIssueText, PauseText, ResumeText, ExitText}

\* The probe holds a classification.
Classified == "command" \in DOMAIN probe

\* The text of the probe is a word of the vocabulary, whatever its case and
\* the spaces around it.
InVocabulary == \E v \in Vocabulary : toUpperCase(trim(probe.text)) = toUpperCase(v)

\* The classification does not depend on the case of the text and is
\* idempotent; a word of the vocabulary is classified as that word.
CaseBlindAndIdempotent ==
    /\ SubmitCommand(toUpperCase(probe.text), probe.phase) = probe.command
    /\ probe.again = probe.command
    /\ \A v \in Vocabulary :
           toUpperCase(trim(probe.text)) = toUpperCase(v) => probe.command = v

\* C22 as stated: command classification is case-insensitive and idempotent,
\* and any text outside the vocabulary is classified as unrecognized (it is
\* sent as no word of the vocabulary).
C22_ClassificationAsStated ==
    Classified =>
        /\ CaseBlindAndIdempotent
        /\ ~InVocabulary => probe.command \notin Vocabulary

\* C22 amended: command classification is case-insensitive and idempotent,
\* and any text outside the vocabulary is classified as unrecognized, except
\* "continue" in phase paused, which is classified as resume.
C22_ClassificationButContinueInPaused ==
    Classified =>
        /\ CaseBlindAndIdempotent
        /\ ~InVocabulary =>
              IF toUpperCase(trim(probe.text)) = toUpperCase(ContinueText)
                 /\ probe.phase = "paused"
              THEN probe.command = ResumeText
              ELSE probe.command \notin Vocabulary

C22_Witness ==
    /\ Classified
    /\ probe.text = <<"C","O","N","T","I","N","U","E">>
    /\ probe.phase = "paused"
    /\ probe.command = ResumeText
    /\ probe.again = ResumeText

\* The step is a learner event whose handler starts a generator call.
EventStep == Len(inflight') = Len(inflight) + 1

\* The step selects the option the question names as correct.
CorrectSelected ==
    \E o \in Option :
        /\ o.id = phaseResponse.correct_answer_id
        /\ tutorStateRef'.selectedOptionLabel = o.label

\* C23 as stated: Continue in phase evaluate with question_index =
\* TOTAL_QUESTIONS - 1, every answer so far correct (the prior one included),
\* makes the phase report and the score 1 higher than before the advance.
C23_LastAdvanceAsStated ==
    [][( /\ lastEvent' = "clickContinue" /\ EventStep
         /\ tutorStateRef.currentPhase = "evaluate"
         /\ tutorStateRef.question_index = TOTAL_QUESTIONS - 1
         /\ tutorStateRef.score = tutorStateRef.question_index )
         => /\ tutorStateRef'.currentPhase = "report"
            /\ tutorStateRef'.score = tutorStateRef.score + 1]_vars

\* C23 amended: selecting the correct option of the last question (phase ask,
\* question_index = TOTAL_QUESTIONS - 1) makes the phase evaluate, the score 1
\* higher and question_index TOTAL_QUESTIONS; Continue in phase evaluate with
\* question_index = TOTAL_QUESTIONS makes the phase report and leaves score
\* and question_index as they are.
C23_LastAnswerScoresThenReport ==
    [][/\ ( /\ lastEvent' = "clickOption" /\ EventStep /\ CorrectSelected
            /\ tutorStateRef.currentPhase = "ask"
            /\ tutorStateRef.question_index = TOTAL_QUESTIONS - 1 )
            => /\ tutorStateRef'.currentPhase = "evaluate"
               /\ tutorStateRef'.score = tutorStateRef.score + 1
               /\ tutorStateRef'.question_index = TOTAL_QUESTIONS
       /\ ( /\ lastEvent' = "clickContinue" /\ EventStep
            /\ tutorStateRef.currentPhase = "evaluate"
            /\ tutorStateRef.question_index = TOTAL_QUESTIONS )
            => /\ tutorStateRef'.currentPhase = "report"
               /\ Frozen]_vars

\* C23 witness: every question answered correctly, Continue used in the last
\* evaluate, and the report is shown with the full score.
C23_Witness ==
    /\ lastEvent = "clickContinue"
    /\ phaseResponse.phase = "report"
    /\ tutorStateRef.currentPhase = "report"
    /\ tutorStateRef.question_index = TOTAL_QUESTIONS
    /\ tutorStateRef.score = TOTAL_QUESTIONS
    /\ ~isLoading /\ error = Null

\* The states of the end-to-end example of the specification, <<phase,
\* question_index, score>>, for TOTAL_QUESTIONS questions all answered
\* correctly, and the state that follows each.
StatedStates ==
    {<<"intro", 0, 0>>, <<"teach", 0, 0>>}
      \cup {<<"ask", q, q>> : q \in 0..(TOTAL_QUESTIONS - 1)}
      \cup {<<"evaluate", q, q + 1>> : q \in 0..(TOTAL_QUESTIONS - 1)}
      \cup {<<"report", TOTAL_QUESTIONS - 1, TOTAL_QUESTIONS>>}

StatedAfter(st) ==
    IF st[1] = "intro" THEN <<"teach", 0, 0>>
    ELSE IF st[1] = "teach" THEN <<"ask", 0, 0>>
    ELSE IF st[1] = "ask" THEN <<"evaluate", st[2], st[3] + 1>>
    ELSE IF st[1] = "evaluate"
    THEN (IF st[2] < TOTAL_QUESTIONS - 1 THEN <<"ask", st[2] + 1, st[3]>>
          ELSE <<"report", st[2], st[3]>>)
    ELSE <<"completed", st[2], st[3]>>

\* The same with question_index counting the questions answered.
RunStates ==
    {<<"intro", 0, 0>>, <<"teach", 0, 0>>}
      \cup {<<"ask", q, q>> : q \in 0..(TOTAL_QUESTIONS - 1)}
      \cup {<<"evaluate", q + 1, q + 1>> : q \in 0..(TOTAL_QUESTIONS - 1)}
      \cup {<<"report", TOTAL_QUESTIONS, TOTAL_QUESTIONS>>}

RunAfter(st) ==
    IF st[1] = "intro" THEN <<"teach", 0, 0>>
    ELSE IF st[1] = "teach" THEN <<"ask", 0, 0>>
    ELSE IF st[1] = "ask" THEN <<"evaluate", st[2] + 1, st[3] + 1>>
    ELSE IF st[1] = "evaluate"
    THEN (IF st[2] < TOTAL_QUESTIONS THEN <<"ask", st[2], st[3]>>
          ELSE <<"report", st[2], st[3]>>)
    ELSE <<"completed", st[2], st[3]>>

\* The step is Continue, or the selection of the correct option.
RunEvent ==
    /\ EventStep
    /\ \/ lastEvent' = "clickContinue"
       \/ lastEvent' = "clickOption" /\ CorrectSelected

TutorState(t) == <<t.currentPhaseRef, t.currentQRef, t.currentScoreRef>>

\* The step ends a turn of the fixed-question tutor with a response.
TutorCommitStep ==
    /\ Len(tutor.inflight) = 1
    /\ tutor'.inflight = <<>>
    /\ tutor'.error = Null

\* The response of the step is the fallback of a failed generator call.
FallbackStep ==
    /\ TutorCommitStep
    /\ CanThrow(tutor.inflight[1])
    /\ tutor'.tutorResponse =
         Fallback(tutor.inflight[1].phase, tutor.inflight[1].q, tutor.inflight[1].score)

\* The screen b comes next after the screen a in the order intro, teach,
\* ask 0, evaluate 0, ..., ask 4, evaluate 4, report, completed.
ShownNext(a, b) ==
    IF a.phase = "intro" THEN b.phase = "teach"
    ELSE IF a.phase = "teach" THEN b.phase = "ask" /\ b.state.q = 0
    ELSE IF a.phase = "ask" THEN b.phase = "evaluate" /\ b.state.q = a.state.q
    ELSE IF a.phase = "evaluate"
    THEN (IF a.state.q < Len(QUESTIONS) - 1
          THEN b.phase = "ask" /\ b.state.q = a.state.q + 1
          ELSE b.phase = "report")
    ELSE IF a.phase = "report" THEN b.phase = "completed"
    ELSE FALSE

\* The screen shown is the fallback of a failed generator call.
FallbackShown ==
    tutor.tutorResponse =
      Fallback(tutor.currentPhaseRef, tutor.currentQRef, tutor.currentScoreRef)

\* C26: in the fixed-question tutor, whenever a turn that did not fail puts
\* another phase on the screen than the one shown (itself no fallback), it is
\* the phase that comes next in the order intro, teach, ask q, evaluate q for
\* q = 0..4, report, completed.
C26_PhasesInOrder ==
    [][( /\ TutorCommitStep /\ ~FallbackStep
         /\ tutor.tutorResponse # NullTutorResponse /\ ~FallbackShown
         /\ tutor'.tutorResponse.phase # tutor.tutorResponse.phase )
         => ShownNext(tutor.tutorResponse, tutor'.tutorResponse)]_vars

\* C27: in the fixed-question tutor, the turn of a Submit that did not fail
\* leaves the score 1 higher if the choice submitted is the correctAnswerId
\* of the question shown, and unchanged otherwise.
C27_SubmitScores ==
    [][( /\ lastEvent = "clickSubmit" /\ TutorCommitStep /\ ~FallbackStep
         /\ tutor.currentPhaseRef = "ask"
         /\ tutor.currentQRef \in 0..(Len(QUESTIONS) - 1) )
         => tutor'.currentScoreRef =
               (IF tutor.inflight[1].userInput
                     = QUESTIONS[tutor.currentQRef + 1].correctAnswerId
                THEN tutor.currentScoreRef + 1 ELSE tutor.currentScoreRef)]_vars

\* C30: in the fixed-question tutor, a turn whose generator call fails (the
\* fallback is returned, or sendMessage rejects) leaves phase, q and score as
\* they were before the action that started the turn.
C30_FailedTurnLeavesState ==
    [][( \/ FallbackStep
         \/ Len(tutor.inflight) = 1 /\ tutor'.inflight = <<>> /\ tutor'.error # Null )
         => TutorState(tutor') = TutorState(tutor)]_vars

\* The probe holds a call of sendMessage in phase evaluate whose generator
\* call, if it made one, returned.
EvaluateSent ==
    /\ "response" \in DOMAIN probe
    /\ probe.call.phase = "evaluate"
    /\ probe.generated

C29_TryAgainStartsCall ==
    (error # Null /\ TryAgainShown(Props(Session)))
      => Len(onContinue(Session).inflight) = Len(inflight) + 1

\* The session s after the handler has started exactly one call that carries
\* the command, the phase and the state of s, the ref of s left as it is.
SendsAsIs(s, after, command) ==
    /\ Len(after.inflight) = Len(s.inflight) + 1
    /\ after.tutorStateRef = s.tutorStateRef
    /\ LET call == after.inflight[Len(after.inflight)]
       IN /\ call.learnerInput = command
          /\ call.currentPhase = s.tutorStateRef.currentPhase
          /\ call.currentState = [question_index |-> s.tutorStateRef.question_index,
                                  score |-> s.tutorStateRef.score]

\* The session with t typed into the command box.
Typed(t) == [Session EXCEPT !.learnerCommandInput = t]

\* C31: while the phase is paused, the Continue button and a typed "continue"
\* (any case, spaces around it) send the command resume with phase and state
\* as they are; outside paused a typed "continue" is sent as "continue".
C31_ContinueResumesInPaused ==
    /\ (ContinueShown(Props(Session)) /\ tutorStateRef.currentPhase = "paused")
          => SendsAsIs(Session, onContinue(Session), ResumeText)
    /\ \A t \in Typings(ContinueText) :
          SendCommandEnabled(Props(Typed(t)))
            => SendsAsIs(Typed(t), onCommandSubmit(Typed(t)),
                         IF tutorStateRef.currentPhase = "paused"
                         THEN ResumeText ELSE ContinueText)

\* C31 witness: Continue was pressed on the paused screen and the call in
\* flight carries resume with the phase still paused.
C31_Witness ==
    /\ lastEvent = "clickContinue"
    /\ Len(inflight) = 1
    /\ inflight[1].learnerInput = ResumeText
    /\ inflight[1].currentPhase = "paused"
    /\ tutorStateRef.currentPhase = "paused"
    /\ tutorStateRef.question_index = 1

C33_ScoreOncePerQuestion ==
    [][/\ tutorStateRef'.question_index >= tutorStateRef.question_index
       /\ tutorStateRef'.score # tutorStateRef.score
            => /\ tutorStateRef'.score = tutorStateRef.score + 1
               /\ tutorStateRef'.question_index = tutorStateRef.question_index + 1
               /\ EventStep
               /\ tutorStateRef.currentPhase = "ask"
               /\ tutorStateRef'.currentPhase = "evaluate"
               /\ \A o \in Option :
                    (onOptionSelect(Session, o.id, o.label) = Session)'
                    /\ ~OptionShown(Props(Session), o)']_vars

\* C33 witness: the third answer was just selected and scored, one of the
\* earlier two having been wrong.
C33_Witness ==
    /\ Len(inflight) = 1
    /\ inflight[1].isPreviousAnswerCorrect = "true"
    /\ tutorStateRef.currentPhase = "evaluate"
    /\ tutorStateRef.question_index = 3
    /\ tutorStateRef.score = 2

\* C34: the feedback context of a call sent in phase evaluate (exit apart,
\* whose content the prompt fixes) agrees with the scoring of the answer it
\* is about: it says correct when every answer so far was scored (score =
\* question_index), the last one among them, and incorrect when none was.
C34_FeedbackAgreesWithScoring ==
    \A i \in 1..Len(inflight) :
        LET call == inflight[i]
        IN ( /\ call.currentPhase = "evaluate" /\ call.learnerInput # ExitText
             /\ call.currentState.question_index >= 1 )
             => /\ call.currentState.score = call.currentState.question_index
                     => feedbackContext(call) = "correct"
                /\ call.currentState.score = 0
                     => feedbackContext(call) = "incorrect"

\* Texts that are empty or spaces only.
BlankTexts == {EmptyText, <<" ">>, <<" ", " ">>}

\* C35: an option selected while the phase is not ask, and a command
\* submitted with an empty or blank text, change nothing: no call is
\* started and the ref (phase, question_index, score, correctAnswerId) is as
\* it was.
C35_GuardedEventsChangeNothing ==
    /\ tutorStateRef.currentPhase # "ask"
         => \A o \in Option : handleOptionSelect(Session, o.id, o.label) = Session
    /\ \A t \in BlankTexts : handleCommandSubmit(Typed(t)) = Typed(t)

\* C35 witness: an option selection arrived on the teach screen, before any
\* question was answered, and nothing was started.
C35_Witness ==
    /\ lastEvent = "selectOption"
    /\ phaseResponse.phase = "teach"
    /\ tutorStateRef.currentPhase = "teach"
    /\ tutorStateRef.question_index = 0
    /\ ~isLoading /\ error = Null /\ inflight = <<>>

\* The control starts a new turn of the fixed-question tutor from t.
StartsTurn(t, after) == Len(after.inflight) = Len(t.inflight) + 1

\* C36: in the fixed-question tutor, whenever a screen is shown with no call
\* in flight and the phase is not completed, a control is enabled that
\* starts a new turn: a phase button, or Submit Answer with the choice
\* selected, or, on the ask screen, a choice that can be selected so that
\* Submit Answer becomes enabled and starts one.
C36_SomeControlStartsTurn ==
    ( /\ tutor.tutorResponse # NullTutorResponse
      /\ ~tutor.loading /\ tutor.inflight = <<>> /\ tutor.error = Null
      /\ tutor.currentPhaseRef # "completed" )
      => \/ ActionShown(tutor) /\ StartsTurn(tutor, handleAction(tutor, NoId))
         \/ SubmitShown(tutor)
              /\ StartsTurn(tutor, handleAction(tutor, tutor.selectedChoiceId))
         \/ \E id \in 0..3 :
              /\ ChoiceShown(tutor, id)
              /\ LET chosen == [tutor EXCEPT !.selectedChoiceId = id]
                 IN SubmitShown(chosen) /\ StartsTurn(chosen, handleAction(chosen, id))

\* Whether sendMessage reads an element of QUESTIONS for a call, and the
\* index it reads.
ReadsQuestion(call) ==
    \/ call.phase \in {"teach", "ask"}
    \/ call.phase = "evaluate" /\ call.q + 1 < Len(QUESTIONS)

QuestionRead(call) ==
    IF call.phase = "teach" THEN 0
    ELSE IF call.phase = "ask" THEN call.q
    ELSE call.q + 1

\* C37: every sendMessage call the fixed-question tutor makes that reads an
\* element of QUESTIONS reads it at an index from 0 to 4, whatever the
\* learner did and whichever generator calls failed before.
C37_QuestionIndexInRange ==
    \A i \in 1..Len(tutor.inflight) :
        ReadsQuestion(tutor.inflight[i])
          => QuestionRead(tutor.inflight[i]) \in 0..(Len(QUESTIONS) - 1)

\* The last question is read by a call made in phase ask.
C37_Witness ==
    \E i \in 1..Len(tutor.inflight) :
        /\ tutor.inflight[i].phase = "ask"
        /\ tutor.inflight[i].q = Len(QUESTIONS) - 1

\* C38: a command-free session of the command tutor whose generator calls
\* all succeed and echo the phase and state sent, and whose learner keeps
\* pressing controls, eventually shows phase completed.
C38_LessonCompletes ==
    []<><<LearnerActs>>_vars
      => <>(phaseResponse # NullResponse /\ phaseResponse.phase = "completed")

\* C39: in the fixed-question tutor the progress shown never goes down from
\* one screen of a session to the next, whether the turn between them
\* returned from the try block of sendMessage or from its fallback.
C39_ProgressNeverDecreases ==
    [][ ( /\ tutor.tutorResponse # NullTutorResponse
          /\ tutor'.tutorResponse # NullTutorResponse )
          => tutor'.tutorResponse.ui.progress >= tutor.tutorResponse.ui.progress ]_vars

\* A fallback is on the screen after the first question, the bar above 10.
C39_Witness ==
    /\ tutor.tutorResponse # NullTutorResponse
    /\ FallbackShown
    /\ tutor.tutorResponse.phase = "ask"
    /\ tutor.tutorResponse.ui.progress = 28

====
